---- MODULE Spec2Model ----
(***************************************************************************)
(* Model of the LEANN personal-data readers (leann/readers.py): one        *)
(* load_data call of one reader, from its first statement to its return.   *)
(* The file system (source present or not, scratch copies under /tmp), the *)
(* database connection, the rows fetched, the loop positions and the       *)
(* Documents built so far are the state; every statement group that can    *)
(* raise is a step with a successful and a raising outcome.                *)
(*                                                                         *)
(* Python values are modelled as follows.  A text column is a string, with *)
(* Null for NULL/None.  A numeric column whose type matters is a pair      *)
(* <<type, value>>.  A chat-export payload is a sequence of one-character  *)
(* strings, so that the regular expressions and substring tests of the     *)
(* sanitizer are computed, not assumed.  os.remove and conn.close are      *)
(* taken to succeed whenever their precondition (file present, connection  *)
(* open) holds.                                                            *)
(***************************************************************************)
EXTENDS Integers, Sequences, FiniteSets, TLC

VARIABLES
    reader,         \* which reader's load_data is running
    max_count,      \* the max_count argument
    concat,         \* concatenate_conversations / concatenate_messages
    srcExists,      \* the source file or directory exists
    table,          \* content of the source: table rows, or export files
    scratch,        \* scratch path -> the file exists
    pc,             \* position in load_data
    conn,           \* what the sqlite3 connection is open on
    rows,           \* cursor.fetchall()
    i,              \* index of the next row / file of the loop
    docs,           \* the list of Documents built so far
    messages,       \* IMessageReader: the message dicts built so far
    messages_text,  \* WeChatHistoryReader: rendered lines of the current file
    j,              \* WeChatHistoryReader: index of the next line to emit
    count,          \* WeChatHistoryReader: Documents emitted so far
    tsOut,          \* outcome of the most recent timestamp conversion
    log,            \* what has been printed
    payload,        \* sanitizer: the payload handed to the two functions
    san,            \* sanitizer: <<>>, or <<their two results>>
    calls,          \* two concurrent calls: call -> its reader and position
    copies          \* two concurrent calls: scratch path -> whose copy it holds

(* The state of one load_data call. *)
loadVars == <<reader, max_count, concat, srcExists, table, scratch, pc, conn, rows,
              i, docs, messages, messages_text, j, count, tsOut, log>>

(* The state of the other developments of this module, which a single      *)
(* load_data call leaves alone.                                            *)
others == <<payload, san, calls, copies>>

vars == <<loadVars, others>>

---------------------------------------------------------------------------
(* Bounds of the model.                                                    *)

MaxRows == 2
MaxCap == 2
MaxFiles == 2

(* Python None / SQL NULL in a text column. *)
Null == "<NULL>"

(* A truthy SQLite INTEGER stored in a column the code treats as text. *)
IntValue == "<INTEGER 7>"

Readers == {"chrome", "imessage", "mail", "calendar", "wechat"}
SnapshotReaders == {"chrome", "mail", "calendar"}
CappedReaders == {"chrome", "mail", "calendar", "wechat"}

TempPaths == {"/tmp/leann_history_index_copy",
              "/tmp/leann_mail_index_copy",
              "/tmp/leann_calendar_index_copy"}

(* One scratch path shared by all three readers. *)
temp_db_path_Shared(r) == "/tmp/leann_history_index_copy"

(* temp_db_path of each load_data (lines 35, 443, 502). *)
temp_db_path(r) ==
    CASE r = "chrome" -> "/tmp/leann_history_index_copy"
      [] r = "mail" -> "/tmp/leann_mail_index_copy"
      [] r = "calendar" -> "/tmp/leann_calendar_index_copy"

(* Python truthiness of a text-column value: None and "" are falsy. *)
Truthy(v) == v # Null /\ v # ""

(* str(v) inside an f-string. *)
Str(v) == IF v = Null THEN "None" ELSE v

(* `v or d`. *)
Or(v, d) == IF Truthy(v) THEN v ELSE d

Min(a, b) == IF a <= b THEN a ELSE b

SeqsUpTo(S, n) == UNION {[1..k -> S] : k \in 0..n}

Take(s, n) == IF n >= Len(s) THEN s ELSE SubSeq(s, 1, n)

(* Stable sort, descending by key, of a sequence of <<key, row>> pairs. *)
RECURSIVE InsertDesc(_, _)
InsertDesc(x, s) ==
    IF s = <<>> THEN <<x>>
    ELSE IF Head(s)[1] >= x[1] THEN <<Head(s)>> \o InsertDesc(x, Tail(s))
         ELSE <<x>> \o s

RECURSIVE SortDesc(_)
SortDesc(s) ==
    IF s = <<>> THEN <<>>
    ELSE InsertDesc(s[Len(s)], SortDesc(SubSeq(s, 1, Len(s) - 1)))

(* What ORDER BY key DESC returns for the rows s, keys[k] being the key of *)
(* s[k].                                                                   *)
OrderByDesc(s, keys) ==
    LET sorted == SortDesc([k \in 1..Len(s) |-> <<keys[k], s[k]>>])
    IN  [k \in 1..Len(s) |-> sorted[k][2]]

(* A limit that keeps the last n rows instead of the first n. *)
SqlLimit_Tail(s, n) ==
    IF n < 0 \/ n >= Len(s) THEN s ELSE SubSeq(s, Len(s) - n + 1, Len(s))

(* SQLite's LIMIT n: a negative n is no limit, LIMIT 0 returns no row. *)
SqlLimit(s, n) == IF n < 0 THEN s ELSE Take(s, n)

---------------------------------------------------------------------------
(* Browser history: ChromeHistoryReader.                                   *)

ChromeRows ==
    [last_visit_time : 1..2, url : {"", "U"}, title : {"", "T", IntValue}]

LastVisitKey(r) == r.last_visit_time

(* SELECT ... FROM urls ORDER BY last_visit_time DESC *)
ChromeQuery(t) == OrderByDesc(t, [k \in 1..Len(t) |-> LastVisitKey(t[k])])

(* if not title or not url: continue *)
ChromeSkips(r) == ~Truthy(r.title) \/ ~Truthy(r.url)

(* title[0:150] raises TypeError on a value that is no str. *)
ChromeRowRaises(r) == ~ChromeSkips(r) /\ r.title = IntValue

ChromeDoc(r) ==
    [title |-> r.title, url |-> r.url, last_visit |-> r.last_visit_time]

(* if 0 < max_count <= len(docs): break *)
CapReached(cap, n) == 0 < cap /\ cap <= n

---------------------------------------------------------------------------
(* Mail index: AppleMailReader.  date_sent is the row's position in the    *)
(* table (mail arrives in date order), so ORDER BY date_sent DESC reverses *)
(* the table.                                                              *)

MailRows == [subject : {Null, "S"}, sender : {Null, "a@x.org"}, snippet : {Null, "P"}]

RECURSIVE Reverse(_)
Reverse(s) == IF s = <<>> THEN <<>> ELSE Reverse(Tail(s)) \o <<Head(s)>>

(* SELECT ... ORDER BY m.date_sent DESC LIMIT ? with (max_count,) *)
MailQuery(t, cap) == SqlLimit(Reverse(t), cap)

(* if not subject and not snippet: continue *)
MailSkips(r) == ~Truthy(r.subject) /\ ~Truthy(r.snippet)

MailDoc(r) ==
    [text |-> <<Str(r.subject), Str(r.sender), Or(r.snippet, "")>>,
     subject |-> Or(r.subject, ""), sender |-> Or(r.sender, "")]

---------------------------------------------------------------------------
(* Calendar cache: AppleCalendarReader.  start_date is <<"int", n>> or     *)
(* <<"null", 0>>; NULL sorts below every number.                           *)

CalendarRows ==
    [summary : {Null, "E"}, start_date : {<<"null", 0>>, <<"int", 1>>, <<"int", 2>>}]

StartKey(r) == IF r.start_date[1] = "null" THEN -1 ELSE r.start_date[2]

(* SELECT ... FROM CI_EVENT ORDER BY start_date DESC LIMIT ? *)
CalendarQuery(t, cap) ==
    SqlLimit(OrderByDesc(t, [k \in 1..Len(t) |-> StartKey(t[k])]), cap)

(* if not summary: continue *)
CalendarSkips(r) == ~Truthy(r.summary)

CalendarEpochOffset == 978307200

(* datetime(start_date + 978307200, 'unixepoch', 'localtime'): NULL for a  *)
(* NULL start_date, else the formatted time of that instant.               *)
CalendarStart(d) ==
    IF d[1] = "null" THEN <<"null", 0>> ELSE <<"time", d[2] + CalendarEpochOffset>>

CalendarDoc(r) == [event |-> r.summary, start |-> CalendarStart(r.start_date)]

---------------------------------------------------------------------------
(* The three readers that work on a scratch copy share one control flow.   *)

Tables(r) ==
    CASE r = "chrome" -> SeqsUpTo(ChromeRows, MaxRows)
      [] r = "mail" -> SeqsUpTo(MailRows, MaxRows)
      [] r = "calendar" -> SeqsUpTo(CalendarRows, MaxRows)

Query(r, t, cap) ==
    CASE r = "chrome" -> ChromeQuery(t)
      [] r = "mail" -> MailQuery(t, cap)
      [] r = "calendar" -> CalendarQuery(t, cap)

Skips(r, row) ==
    CASE r = "chrome" -> ChromeSkips(row)
      [] r = "mail" -> MailSkips(row)
      [] r = "calendar" -> CalendarSkips(row)

RowRaises(r, row) == r = "chrome" /\ ChromeRowRaises(row)

Doc(r, row) ==
    CASE r = "chrome" -> ChromeDoc(row)
      [] r = "mail" -> MailDoc(row)
      [] r = "calendar" -> CalendarDoc(row)

(* The check as it would be if the cleanup ran on the early return too. *)
SnapCheckExists_Cleans ==
    /\ reader \in SnapshotReaders
    /\ pc = "start"
    /\ IF srcExists
       THEN pc' = "copy" /\ log' = log /\ scratch' = scratch
       ELSE /\ pc' = "done"
            /\ log' = log \cup {"not found"}
            /\ scratch' = [scratch EXCEPT ![temp_db_path(reader)] = FALSE]
    /\ UNCHANGED <<reader, max_count, concat, srcExists, table, conn,
                   rows, i, docs, messages, messages_text, j, count, tsOut>>
    /\ UNCHANGED others

(* The source is checked before anything else; a missing source returns. *)
SnapCheckExists ==
    /\ reader \in SnapshotReaders
    /\ pc = "start"
    /\ IF srcExists
       THEN pc' = "copy" /\ log' = log
       ELSE pc' = "done" /\ log' = log \cup {"not found"}
    /\ UNCHANGED <<reader, max_count, concat, srcExists, table, scratch, conn,
                   rows, i, docs, messages, messages_text, j, count, tsOut>>
    /\ UNCHANGED others

(* shutil.copy2(source, temp_db_path) *)
SnapCopy ==
    /\ reader \in SnapshotReaders
    /\ pc = "copy"
    /\ scratch' = [scratch EXCEPT ![temp_db_path(reader)] = TRUE]
    /\ pc' = "connect"
    /\ UNCHANGED <<reader, max_count, concat, srcExists, table, conn, rows, i,
                   docs, messages, messages_text, j, count, tsOut, log>>
    /\ UNCHANGED others

(* copy2 raises: the scratch file is as before, or partly written. *)
SnapCopyFails ==
    /\ reader \in SnapshotReaders
    /\ pc = "copy"
    /\ \E partial \in BOOLEAN :
          scratch' = [scratch EXCEPT ![temp_db_path(reader)] = @ \/ partial]
    /\ pc' = "except"
    /\ UNCHANGED <<reader, max_count, concat, srcExists, table, conn, rows, i,
                   docs, messages, messages_text, j, count, tsOut, log>>
    /\ UNCHANGED others

(* conn = sqlite3.connect(temp_db_path) *)
SnapConnect ==
    /\ reader \in SnapshotReaders
    /\ pc = "connect"
    /\ conn' = temp_db_path(reader)
    /\ pc' = "query"
    /\ UNCHANGED <<reader, max_count, concat, srcExists, table, scratch, rows, i,
                   docs, messages, messages_text, j, count, tsOut, log>>
    /\ UNCHANGED others

SnapConnectFails ==
    /\ reader \in SnapshotReaders
    /\ pc = "connect"
    /\ pc' = "except"
    /\ UNCHANGED <<reader, max_count, concat, srcExists, table, scratch, conn,
                   rows, i, docs, messages, messages_text, j, count, tsOut, log>>
    /\ UNCHANGED others

(* cursor.execute(query); rows = cursor.fetchall() *)
SnapQuery ==
    /\ reader \in SnapshotReaders
    /\ pc = "query"
    /\ rows' = Query(reader, table, max_count)
    /\ i' = 1
    /\ pc' = "loop"
    /\ UNCHANGED <<reader, max_count, concat, srcExists, table, scratch, conn,
                   docs, messages, messages_text, j, count, tsOut, log>>
    /\ UNCHANGED others

(* The file is no database, or its schema lacks the table or a column. *)
SnapQueryFails ==
    /\ reader \in SnapshotReaders
    /\ pc = "query"
    /\ pc' = "except"
    /\ UNCHANGED <<reader, max_count, concat, srcExists, table, scratch, conn,
                   rows, i, docs, messages, messages_text, j, count, tsOut, log>>
    /\ UNCHANGED others

(* The loop exit as it would be if the cap counted the rows scanned. *)
SnapLoopExits_CountsRows ==
    i > Len(rows) \/ (reader = "chrome" /\ CapReached(max_count, i - 1))

(* Where one iteration of `for row in rows` leads. *)
SnapLoopExits == i > Len(rows) \/ (reader = "chrome" /\ CapReached(max_count, Len(docs)))

(* What `for row in rows` leaves in docs, started with acc: it ends at the *)
(* end of the rows, at the cap (history reader) or at a row that raises.   *)
RECURSIVE RowDocs(_, _, _, _)
RowDocs(r, rs, cap, acc) ==
    IF rs = <<>> \/ (r = "chrome" /\ CapReached(cap, Len(acc))) THEN acc
    ELSE IF Skips(r, Head(rs)) THEN RowDocs(r, Tail(rs), cap, acc)
    ELSE IF RowRaises(r, Head(rs)) THEN acc
    ELSE RowDocs(r, Tail(rs), cap, Append(acc, Doc(r, Head(rs))))

(* load_data of a snapshot reader on the table t when copy, connect and    *)
(* query succeed.                                                          *)
SnapResult(r, t, cap) == RowDocs(r, Query(r, t, cap), cap, <<>>)

(* One iteration of `for row in rows`, or the end of the loop. *)
SnapRow ==
    /\ reader \in SnapshotReaders
    /\ pc = "loop"
    /\ IF SnapLoopExits
       THEN pc' = "close" /\ UNCHANGED <<i, docs>>
       ELSE IF Skips(reader, rows[i])
       THEN pc' = "loop" /\ i' = i + 1 /\ UNCHANGED docs
       ELSE IF RowRaises(reader, rows[i])
       THEN pc' = "except" /\ UNCHANGED <<i, docs>>
       ELSE pc' = "loop" /\ i' = i + 1 /\ docs' = Append(docs, Doc(reader, rows[i]))
    /\ UNCHANGED <<reader, max_count, concat, srcExists, table, scratch, conn,
                   rows, messages, messages_text, j, count, tsOut, log>>
    /\ UNCHANGED others

(* conn.close() *)
SnapClose ==
    /\ reader \in SnapshotReaders
    /\ pc = "close"
    /\ conn' = "none"
    /\ pc' = "remove"
    /\ UNCHANGED <<reader, max_count, concat, srcExists, table, scratch, rows, i,
                   docs, messages, messages_text, j, count, tsOut, log>>
    /\ UNCHANGED others

(* Success path: chrome removes the scratch file if it exists; mail and    *)
(* calendar call os.remove at once, which raises when the file is gone.    *)
SnapRemove ==
    /\ reader \in SnapshotReaders
    /\ pc = "remove"
    /\ IF scratch[temp_db_path(reader)]
       THEN scratch' = [scratch EXCEPT ![temp_db_path(reader)] = FALSE] /\ pc' = "done"
       ELSE scratch' = scratch /\ pc' = IF reader = "chrome" THEN "done" ELSE "except"
    /\ UNCHANGED <<reader, max_count, concat, srcExists, table, conn, rows, i,
                   docs, messages, messages_text, j, count, tsOut, log>>
    /\ UNCHANGED others

(* The handler as it would be without its cleanup. *)
SnapExcept_NoCleanup ==
    /\ reader \in SnapshotReaders
    /\ pc = "except"
    /\ log' = log \cup {"error"}
    /\ pc' = "done"
    /\ UNCHANGED <<reader, max_count, concat, srcExists, table, scratch, conn,
                   rows, i, docs, messages, messages_text, j, count, tsOut>>
    /\ UNCHANGED others

(* except Exception: print; remove the scratch file if it exists; fall to  *)
(* `return docs`.                                                          *)
SnapExcept ==
    /\ reader \in SnapshotReaders
    /\ pc = "except"
    /\ log' = log \cup {"error"}
    /\ scratch' = [scratch EXCEPT ![temp_db_path(reader)] = FALSE]
    /\ pc' = "done"
    /\ UNCHANGED <<reader, max_count, concat, srcExists, table, conn, rows, i,
                   docs, messages, messages_text, j, count, tsOut>>
    /\ UNCHANGED others

---------------------------------------------------------------------------
(* Messaging database: IMessageReader.                                     *)

MaxChats == 2

(* datetime(2001, 1, 1).timestamp(), for a process running in UTC. *)
CocoaEpochUnix == 978307200

NanosPerSecond == 1000000000

(* The timestamp values tried: <<type, value>>.  "far" is a REAL whose     *)
(* date lies after year 9999, "huge" a REAL beyond the platform's time_t.  *)
TimestampKinds == {"int", "null", "text", "far", "huge"}

(* Outcomes of a conversion: <<"time", unix seconds>> for the formatted    *)
(* local-time string of that instant, <<"Unknown", 0>>, or the exception   *)
(* that leaves the conversion.                                             *)
Raised(out) == out[1] \in {"TypeError", "OverflowError"}

(* _convert_cocoa_timestamp: only ValueError and OSError are caught. *)
ConvertCocoaTimestamp(ts) ==
    CASE ts[1] = "int" /\ ts[2] = 0 -> <<"Unknown", 0>>
      [] ts[1] = "int" /\ ts[2] # 0 ->
            <<"time", CocoaEpochUnix + (ts[2] \div NanosPerSecond)>>
      [] ts[1] = "null" -> <<"TypeError", 0>>
      [] ts[1] = "text" -> <<"TypeError", 0>>
      [] ts[1] = "far" -> <<"Unknown", 0>>
      [] ts[1] = "huge" -> <<"OverflowError", 0>>

IsDigit(c) == c \in {"0", "1", "2", "3", "4", "5", "6", "7", "8", "9"}

(* _get_contact_name, on a handle given as a sequence of characters. *)
GetContactName(handle_id) ==
    LET digits == SelectSeq(handle_id, IsDigit) IN
    IF handle_id = <<>> THEN <<"U", "n", "k", "n", "o", "w", "n">>
    ELSE IF \E k \in 1..Len(handle_id) : handle_id[k] = "@" THEN handle_id
    ELSE IF handle_id[1] = "+" THEN handle_id
    ELSE IF Len(digits) = 10
         THEN <<"(">> \o SubSeq(digits, 1, 3) \o <<")", " ">> \o SubSeq(digits, 4, 6)
              \o <<"-">> \o SubSeq(digits, 7, 10)
    ELSE IF Len(digits) = 11 /\ digits[1] = "1"
         THEN <<"+", "1", " ", "(">> \o SubSeq(digits, 2, 4) \o <<")", " ">>
              \o SubSeq(digits, 5, 7) \o <<"-">> \o SubSeq(digits, 8, 11)
    ELSE handle_id

EmailHandle == <<"a", "@", "x">>
PhoneHandle == <<"5", "5", "5", "1", "2", "3", "4", "5", "6", "7">>

(* Who sent a message: the message columns is_from_me and service and the  *)
(* joined handle.id (NULL when the message has no handle row).             *)
Senders ==
    { [is_from_me |-> 1, handle_id |-> <<>>, handle_null |-> TRUE, service |-> Null],
      [is_from_me |-> 0, handle_id |-> EmailHandle, handle_null |-> FALSE,
       service |-> "iMessage"],
      [is_from_me |-> 0, handle_id |-> PhoneHandle, handle_null |-> FALSE,
       service |-> "SMS"] }

MessageRows ==
    [chat_id : 1..MaxChats, sender : Senders, text : {"hi"},
     date : {<<"int", 0>>, <<"int", NanosPerSecond>>, <<"null", 0>>}]

(* The joined chat row: chat 1 has no display name. *)
ChatDisplayName(c) == IF c = 1 THEN Null ELSE "Group"
ChatIdentifier(c) == <<"chat", c>>

(* Sort keys of ORDER BY c.ROWID, m.date (ascending; NULL sorts first). *)
DateKey(r) == IF r.date[1] = "null" THEN 2000000000 ELSE 0 - r.date[2]
ChatKey(r) == 0 - r.chat_id

(* The SELECT of _read_messages_from_db: the message's ROWID is its place  *)
(* in the table; rows with empty text are left out; the result is ordered  *)
(* by chat, then by date.                                                  *)
MessageQuery(t) ==
    LET joined == [k \in 1..Len(t) |->
                     [message_id |-> k, text |-> t[k].text, date |-> t[k].date,
                      is_from_me |-> t[k].sender.is_from_me,
                      service |-> t[k].sender.service,
                      chat_identifier |-> ChatIdentifier(t[k].chat_id),
                      chat_display_name |-> ChatDisplayName(t[k].chat_id),
                      handle_id |-> t[k].sender.handle_id,
                      handle_null |-> t[k].sender.handle_null,
                      chat_id |-> t[k].chat_id]]
        HasText(r) == r.text # Null /\ r.text # ""
        selected == SelectSeq(joined, HasText)
        by_date == OrderByDesc(selected, [k \in 1..Len(selected) |-> DateKey(selected[k])])
    IN  OrderByDesc(by_date, [k \in 1..Len(by_date) |-> ChatKey(by_date[k])])

(* The message dict built from one row (lines 244-255). *)
MessageOf(row) ==
    [message_id |-> row.message_id,
     text |-> row.text,
     timestamp |-> ConvertCocoaTimestamp(row.date),
     is_from_me |-> row.is_from_me # 0,
     service |-> Or(row.service, "iMessage"),
     chat_identifier |-> row.chat_identifier,
     chat_display_name |-> Or(row.chat_display_name, "Unknown Chat"),
     handle_id |-> IF row.handle_null THEN <<"U", "n", "k", "n", "o", "w", "n">>
                   ELSE row.handle_id,
     contact_name |-> GetContactName(row.handle_id),
     chat_id |-> row.chat_id]

(* _group_messages_by_chat: the dict's keys in insertion order, and the    *)
(* list under each key.                                                    *)
RECURSIVE ChatKeys(_)
ChatKeys(ms) ==
    IF ms = <<>> THEN <<>>
    ELSE LET before == ChatKeys(SubSeq(ms, 1, Len(ms) - 1))
             c == ms[Len(ms)].chat_id
         IN  IF \E k \in 1..Len(before) : before[k] = c THEN before
             ELSE Append(before, c)

(* The grouping as it would be if a chat's list were replaced, not extended. *)
RECURSIVE GroupMessagesByChat_Overwrites(_)
GroupMessagesByChat_Overwrites(ms) ==
    IF ms = <<>> THEN [c \in {} |-> <<>>]
    ELSE LET chats == GroupMessagesByChat_Overwrites(SubSeq(ms, 1, Len(ms) - 1))
             m == ms[Len(ms)]
         IN  [d \in DOMAIN chats \cup {m.chat_id} |->
                IF d = m.chat_id THEN <<m>> ELSE chats[d]]

RECURSIVE GroupMessagesByChat(_)
GroupMessagesByChat(ms) ==
    IF ms = <<>> THEN [c \in {} |-> <<>>]
    ELSE LET chats == GroupMessagesByChat(SubSeq(ms, 1, Len(ms) - 1))
             m == ms[Len(ms)]
             c == m.chat_id
         IN  IF c \in DOMAIN chats
             THEN [chats EXCEPT ![c] = Append(@, m)]
             ELSE [d \in DOMAIN chats \cup {c} |->
                     IF d = c THEN <<m>> ELSE chats[d]]

(* One line of _create_concatenated_content. *)
ConcatenatedPart(m) ==
    [sender |-> IF m.is_from_me THEN <<"Y", "o", "u">> ELSE m.contact_name,
     timestamp |-> m.timestamp, message_id |-> m.message_id, text |-> m.text]

(* The Document of one chat (lines 390-410). *)
ConcatenatedDoc(chat_id, chat_messages) ==
    [parts |-> [k \in 1..Len(chat_messages) |-> ConcatenatedPart(chat_messages[k])],
     chat_id |-> chat_id,
     chat_name |-> chat_messages[1].chat_display_name,
     chat_identifier |-> chat_messages[1].chat_identifier,
     message_count |-> Len(chat_messages),
     first_message_date |-> chat_messages[1].timestamp,
     last_message_date |-> chat_messages[Len(chat_messages)].timestamp,
     participants |-> {chat_messages[k].contact_name :
                         k \in {n \in 1..Len(chat_messages) :
                                  ~chat_messages[n].is_from_me}}]

ConcatenatedDocs(ms) ==
    LET keys == ChatKeys(ms)
        chats == GroupMessagesByChat(ms)
    IN  [k \in 1..Len(keys) |-> ConcatenatedDoc(keys[k], chats[keys[k]])]

(* The Document of one message (lines 415-430). *)
IndividualDoc(m) ==
    [sender |-> IF m.is_from_me THEN <<"Y", "o", "u">> ELSE m.contact_name,
     message_id |-> m.message_id, chat_id |-> m.chat_id,
     chat_name |-> m.chat_display_name, chat_identifier |-> m.chat_identifier,
     timestamp |-> m.timestamp, is_from_me |-> m.is_from_me,
     contact_name |-> m.contact_name, service |-> m.service, text |-> m.text]

IndividualDocs(ms) == [k \in 1..Len(ms) |-> IndividualDoc(ms[k])]

(* if not db_path.exists(): print; return [] *)
ImsgCheckExists ==
    /\ reader = "imessage"
    /\ pc = "start"
    /\ IF srcExists
       THEN pc' = "connect" /\ log' = log
       ELSE pc' = "emit" /\ log' = log \cup {"not found"}
    /\ UNCHANGED <<reader, max_count, concat, srcExists, table, scratch, conn,
                   rows, i, docs, messages, messages_text, j, count, tsOut>>
    /\ UNCHANGED others

(* conn = sqlite3.connect(str(db_path)): the database itself. *)
ImsgConnect ==
    /\ reader = "imessage"
    /\ pc = "connect"
    /\ conn' = "source"
    /\ pc' = "query"
    /\ UNCHANGED <<reader, max_count, concat, srcExists, table, scratch, rows, i,
                   docs, messages, messages_text, j, count, tsOut, log>>
    /\ UNCHANGED others

ImsgConnectFails ==
    /\ reader = "imessage"
    /\ pc = "connect"
    /\ pc' = "except"
    /\ UNCHANGED <<reader, max_count, concat, srcExists, table, scratch, conn,
                   rows, i, docs, messages, messages_text, j, count, tsOut, log>>
    /\ UNCHANGED others

ImsgQuery ==
    /\ reader = "imessage"
    /\ pc = "query"
    /\ rows' = MessageQuery(table)
    /\ i' = 1
    /\ pc' = "loop"
    /\ UNCHANGED <<reader, max_count, concat, srcExists, table, scratch, conn,
                   docs, messages, messages_text, j, count, tsOut, log>>
    /\ UNCHANGED others

ImsgQueryFails ==
    /\ reader = "imessage"
    /\ pc = "query"
    /\ pc' = "except"
    /\ UNCHANGED <<reader, max_count, concat, srcExists, table, scratch, conn,
                   rows, i, docs, messages, messages_text, j, count, tsOut, log>>
    /\ UNCHANGED others

(* One iteration of `for row in rows`: an exception of the conversion      *)
(* leaves the loop for the handlers of lines 261-266.                      *)
ImsgRow ==
    /\ reader = "imessage"
    /\ pc = "loop"
    /\ IF i > Len(rows)
       THEN pc' = "close" /\ UNCHANGED <<i, messages, tsOut>>
       ELSE /\ tsOut' = ConvertCocoaTimestamp(rows[i].date)
            /\ IF Raised(tsOut')
               THEN pc' = "except" /\ UNCHANGED <<i, messages>>
               ELSE /\ pc' = "loop"
                    /\ i' = i + 1
                    /\ messages' = Append(messages, MessageOf(rows[i]))
    /\ UNCHANGED <<reader, max_count, concat, srcExists, table, scratch, conn,
                   rows, docs, messages_text, j, count, log>>
    /\ UNCHANGED others

(* conn.close(); return messages *)
ImsgClose ==
    /\ reader = "imessage"
    /\ pc = "close"
    /\ conn' = "none"
    /\ pc' = "emit"
    /\ UNCHANGED <<reader, max_count, concat, srcExists, table, scratch, rows, i,
                   docs, messages, messages_text, j, count, tsOut, log>>
    /\ UNCHANGED others

(* except ...: print; return [] *)
ImsgExcept ==
    /\ reader = "imessage"
    /\ pc = "except"
    /\ log' = log \cup {"error"}
    /\ messages' = <<>>
    /\ pc' = "emit"
    /\ UNCHANGED <<reader, max_count, concat, srcExists, table, scratch, conn,
                   rows, i, docs, messages_text, j, count, tsOut>>
    /\ UNCHANGED others

(* load_data after _read_messages_from_db returned (lines 379-432). *)
ImsgEmit ==
    /\ reader = "imessage"
    /\ pc = "emit"
    /\ docs' = IF messages = <<>> THEN docs
               ELSE IF concat THEN ConcatenatedDocs(messages)
               ELSE IndividualDocs(messages)
    /\ pc' = "done"
    /\ UNCHANGED <<reader, max_count, concat, srcExists, table, scratch, conn,
                   rows, i, messages, messages_text, j, count, tsOut, log>>
    /\ UNCHANGED others

---------------------------------------------------------------------------
(* Chat export: WeChatHistoryReader.  A payload string is a sequence of    *)
(* characters.                                                             *)

IsSpace(c) == c \in {" ", "\t", "\n", "\r"}

StartsWith(s, p) == Len(s) >= Len(p) /\ SubSeq(s, 1, Len(p)) = p

(* `sub in s` *)
Contains(s, sub) ==
    \E k \in 1..(Len(s) - Len(sub) + 1) : SubSeq(s, k, k + Len(sub) - 1) = sub

RECURSIVE LStrip(_)
LStrip(s) == IF s # <<>> /\ IsSpace(Head(s)) THEN LStrip(Tail(s)) ELSE s

RECURSIVE RStrip(_)
RStrip(s) ==
    IF s # <<>> /\ IsSpace(s[Len(s)]) THEN RStrip(SubSeq(s, 1, Len(s) - 1)) ELSE s

(* str.strip() *)
Strip(s) == RStrip(LStrip(s))

(* Index of the first ":" of s, 0 when there is none. *)
FirstColon(s) ==
    IF \E k \in 1..Len(s) : s[k] = ":"
    THEN CHOOSE k \in 1..Len(s) : s[k] = ":" /\ \A n \in 1..(k - 1) : s[n] # ":"
    ELSE 0

WxidPrefix == <<"w", "x", "i", "d", "_">>

(* re.sub(r"^wxid_[^:]+:\s*", "", s): the match needs at least one         *)
(* character between "wxid_" and the first colon.                          *)
SubWxid(s) ==
    IF StartsWith(s, WxidPrefix) /\ FirstColon(s) >= Len(WxidPrefix) + 2
    THEN LStrip(SubSeq(s, FirstColon(s) + 1, Len(s)))
    ELSE s

(* re.sub(r"^[^:]+:\s*", "", s) *)
SubLabel(s) ==
    IF FirstColon(s) >= 2 THEN LStrip(SubSeq(s, FirstColon(s) + 1, Len(s))) ELSE s

CleanContent(s) == SubLabel(SubWxid(s))

MarkupTags ==
    { <<"<", "i", "m", "g">>, <<"<", "e", "m", "o", "j", "i">>,
      <<"<", "v", "o", "i", "c", "e">>, <<"<", "v", "i", "d", "e", "o">>,
      <<"<", "a", "p", "p", "m", "s", "g">> }

RecalledPhrase ==
    <<"r", "e", "c", "a", "l", "l", "e", "d", " ", "a", " ",
      "m", "e", "s", "s", "a", "g", "e">>

TextFields == <<"title", "quoted", "content", "text">>

(* A payload: type is "str" (chars in str), "dict" (a function from some   *)
(* of the field names to strings, in fields), "none" or "other".           *)
StrPayload(s) == [type |-> "str", str |-> s, fields |-> [f \in {} |-> <<>>]]
DictPayload(d) == [type |-> "dict", str |-> <<>>, fields |-> d]

(* `not content` *)
Falsy(content) ==
    \/ content.type = "none"
    \/ content.type = "str" /\ content.str = <<>>
    \/ content.type = "dict" /\ DOMAIN content.fields = {}

(* content.get(f) is truthy *)
HasField(content, f) == f \in DOMAIN content.fields /\ content.fields[f] # <<>>

RECURSIVE JoinBar(_)
JoinBar(parts) ==
    IF parts = <<>> THEN <<>>
    ELSE IF Len(parts) = 1 THEN parts[1]
    ELSE parts[1] \o <<" ", "|", " ">> \o JoinBar(Tail(parts))

(* _is_text_message *)
IsTextMessage(content) ==
    IF Falsy(content) THEN FALSE
    ELSE IF content.type = "dict"
         THEN \E k \in 1..Len(TextFields) : HasField(content, TextFields[k])
    ELSE IF content.type # "str" THEN FALSE
    ELSE IF \E tag \in MarkupTags : Contains(content.str, tag) THEN FALSE
    ELSE IF Contains(content.str, RecalledPhrase) THEN FALSE
    ELSE LET clean == Strip(CleanContent(content.str))
         IN  Len(clean) > 0 /\ ~StartsWith(clean, <<"<">>)

(* _extract_readable_text *)
ExtractReadableText(content) ==
    IF Falsy(content) THEN <<>>
    ELSE IF content.type = "dict"
         THEN LET present(f) == HasField(content, f)
                  parts == SelectSeq(TextFields, present)
              IN  JoinBar([k \in 1..Len(parts) |-> content.fields[parts[k]]])
    ELSE IF content.type # "str" THEN <<>>
    ELSE LET clean == CleanContent(content.str)
         IN  IF StartsWith(Strip(clean), <<"<">>) \/ Contains(clean, RecalledPhrase)
             THEN <<>>
             ELSE Strip(clean)

(* datetime.fromtimestamp(create_time).strftime(...) if create_time else   *)
(* "Unknown": nothing is caught here.                                      *)
ConvertCreateTime(ts) ==
    CASE ts[1] = "int" /\ ts[2] = 0 -> <<"Unknown", 0>>
      [] ts[1] = "int" /\ ts[2] # 0 -> <<"time", ts[2]>>
      [] ts[1] = "null" -> <<"Unknown", 0>>
      [] ts[1] = "text" -> <<"TypeError", 0>>
      [] ts[1] = "far" -> <<"ValueError", 0>>
      [] ts[1] = "huge" -> <<"OverflowError", 0>>

CreateTimeRaised(out) == out[1] \in {"TypeError", "ValueError", "OverflowError"}

(* An element of the exported list: a dict with the keys read by the loop, *)
(* or something that is no dict (message.get raises AttributeError).       *)
ChatMessage(content, createTime, fromSelf) ==
    [isdict |-> TRUE, content |-> content, message |-> <<>>,
     createTime |-> createTime, isSentFromSelf |-> fromSelf]

NotADict ==
    [isdict |-> FALSE, content |-> StrPayload(<<>>), message |-> <<>>,
     createTime |-> <<"null", 0>>, isSentFromSelf |-> FALSE]

MsgHi == ChatMessage(StrPayload(<<"h", "i">>), <<"int", 1700000000>>, TRUE)
MsgPrefixed ==
    ChatMessage(StrPayload(<<"w", "x", "i", "d", "_", "a", ":", " ", "y", "o">>),
                <<"int", 0>>, FALSE)
MsgImage == ChatMessage(StrPayload(<<"<", "i", "m", "g", ">">>), <<"int", 5>>, FALSE)
MsgBadTime == ChatMessage(StrPayload(<<"o", "k">>), <<"text", 0>>, FALSE)
MsgQuote ==
    ChatMessage(DictPayload([f \in {"title", "text"} |->
                               IF f = "title" THEN <<"t">> ELSE <<"x">>]),
                <<"int", 7>>, TRUE)

(* What the export files tried hold: the parsed list, or bytes that are no *)
(* JSON (json.load raises).                                                *)
FileBodies ==
    { [corrupt |-> TRUE, data |-> <<>>],
      [corrupt |-> FALSE, data |-> <<MsgHi>>],
      [corrupt |-> FALSE, data |-> <<MsgHi, MsgPrefixed>>],
      [corrupt |-> FALSE, data |-> <<MsgImage>>],
      [corrupt |-> FALSE, data |-> <<MsgHi, MsgBadTime>>],
      [corrupt |-> FALSE, data |-> <<MsgHi, NotADict>>],
      [corrupt |-> FALSE, data |-> <<MsgPrefixed, MsgImage, MsgQuote>>] }

Stems == {<<"contact", k>> : k \in 1..MaxFiles}

ExportFiles == [stem : Stems, body : FileBodies]

(* The directory listings tried: files with distinct names, in the order   *)
(* glob yields them.                                                       *)
ExportDirs ==
    {d \in SeqsUpTo(ExportFiles, MaxFiles) :
        \A a, b \in 1..Len(d) : a # b => d[a].stem # d[b].stem}

(* The body of `for message in chat_data` for one message, given the lines *)
(* so far: the lines after it, the conversion it made, and whether it      *)
(* raised.                                                                 *)
MessageStep(acc, message) ==
    IF acc.raised THEN acc
    ELSE IF ~message.isdict THEN [acc EXCEPT !.raised = TRUE]
    ELSE IF ~IsTextMessage(message.content) THEN acc
    ELSE LET extracted == ExtractReadableText(message.content)
             readable_text == IF extracted # <<>> THEN extracted ELSE message.message
             time_str == ConvertCreateTime(message.createTime)
         IN  IF Strip(readable_text) = <<>> THEN acc
             ELSE IF CreateTimeRaised(time_str)
                  THEN [acc EXCEPT !.raised = TRUE, !.ts = time_str]
             ELSE [acc EXCEPT
                     !.ts = time_str,
                     !.lines = Append(@, [time |-> time_str,
                                          sender |-> IF message.isSentFromSelf
                                                     THEN "[Me]" ELSE "[Contact]",
                                          text |-> readable_text])]

RECURSIVE MessagesText(_, _)
MessagesText(data, ts) ==
    IF data = <<>> THEN [raised |-> FALSE, lines |-> <<>>, ts |-> ts]
    ELSE MessageStep(MessagesText(SubSeq(data, 1, Len(data) - 1), ts),
                     data[Len(data)])

(* json.load and the message loop of one file (lines 603-624). *)
ReadFile(file, ts) ==
    IF file.body.corrupt THEN [raised |-> TRUE, lines |-> <<>>, ts |-> ts]
    ELSE MessagesText(file.body.data, ts)

ConcatenatedFileDoc(stem, lines) == [contact_name |-> stem, lines |-> lines]
LineDoc(stem, line) == [contact_name |-> stem, lines |-> <<line>>]

(* The cap check off by one. *)
WeChatCapReached_OffByOne(cap, n) == 0 < cap /\ cap < n

(* The test of both cap checks of the chat-export loops. *)
WeChatCapReached(cap, n) == CapReached(cap, n)

WcCheckExists ==
    /\ reader = "wechat"
    /\ pc = "start"
    /\ IF srcExists
       THEN pc' = "glob" /\ log' = log
       ELSE pc' = "done" /\ log' = log \cup {"not found"}
    /\ UNCHANGED <<reader, max_count, concat, srcExists, table, scratch, conn,
                   rows, i, docs, messages, messages_text, j, count, tsOut>>
    /\ UNCHANGED others

(* json_files = list(Path(wechat_export_dir).glob("*.json")); count = 0 *)
WcGlob ==
    /\ reader = "wechat"
    /\ pc = "glob"
    /\ rows' = table
    /\ i' = 1
    /\ count' = 0
    /\ pc' = "file"
    /\ UNCHANGED <<reader, max_count, concat, srcExists, table, scratch, conn,
                   docs, messages, messages_text, j, tsOut, log>>
    /\ UNCHANGED others

(* The directory cannot be listed: the outer handler prints and load       *)
(* returns docs.                                                           *)
WcGlobFails ==
    /\ reader = "wechat"
    /\ pc = "glob"
    /\ log' = log \cup {"error"}
    /\ pc' = "done"
    /\ UNCHANGED <<reader, max_count, concat, srcExists, table, scratch, conn,
                   rows, i, docs, messages, messages_text, j, count, tsOut>>
    /\ UNCHANGED others

(* The Documents `for msg in messages_text` appends for one file in        *)
(* individual mode when n Documents were emitted before it (lines 633-639). *)
RECURSIVE EmitLines(_, _, _, _)
EmitLines(stem, lines, cap, n) ==
    IF lines = <<>> \/ WeChatCapReached(cap, n) THEN <<>>
    ELSE <<LineDoc(stem, Head(lines))>> \o EmitLines(stem, Tail(lines), cap, n + 1)

(* The Documents one file adds when n Documents were emitted before it     *)
(* (lines 602-642): none when the file raises or has no text line.         *)
FileDocs(file, cap, concatenate, n) ==
    LET read == ReadFile(file, <<"none", 0>>) IN
    IF read.raised \/ read.lines = <<>> THEN <<>>
    ELSE IF concatenate THEN <<ConcatenatedFileDoc(file.stem, read.lines)>>
    ELSE EmitLines(file.stem, read.lines, cap, n)

(* What `for json_file in json_files` leaves in docs, started with acc     *)
(* (lines 599-642); count is the number of Documents emitted.              *)
RECURSIVE WeChatDocs(_, _, _, _)
WeChatDocs(files, cap, concatenate, acc) ==
    IF files = <<>> \/ WeChatCapReached(cap, Len(acc)) THEN acc
    ELSE WeChatDocs(Tail(files), cap, concatenate,
                    acc \o FileDocs(Head(files), cap, concatenate, Len(acc)))

(* load_data of the chat export on a listed directory. *)
WeChatResult(files, cap, concatenate) == WeChatDocs(files, cap, concatenate, <<>>)

(* The file loop ended by the first file that raises. *)
WcFile_Aborts ==
    /\ reader = "wechat"
    /\ pc = "file"
    /\ IF i > Len(rows) \/ WeChatCapReached(max_count, count)
       THEN pc' = "done" /\ UNCHANGED <<i, docs, messages_text, j, count, tsOut, log>>
       ELSE LET read == ReadFile(rows[i], tsOut) IN
            /\ tsOut' = read.ts
            /\ IF read.raised
               THEN /\ log' = log \cup {"file error"}
                    /\ i' = i + 1
                    /\ pc' = "done"
                    /\ UNCHANGED <<docs, messages_text, j, count>>
               ELSE IF read.lines = <<>>
               THEN /\ i' = i + 1
                    /\ pc' = "file"
                    /\ UNCHANGED <<docs, messages_text, j, count, log>>
               ELSE IF concat
               THEN /\ docs' = Append(docs, ConcatenatedFileDoc(rows[i].stem, read.lines))
                    /\ count' = count + 1
                    /\ i' = i + 1
                    /\ pc' = "file"
                    /\ UNCHANGED <<messages_text, j, log>>
               ELSE /\ messages_text' = read.lines
                    /\ j' = 1
                    /\ pc' = "emit"
                    /\ UNCHANGED <<i, docs, count, log>>
    /\ UNCHANGED <<reader, max_count, concat, srcExists, table, scratch, conn,
                   rows, messages>>
    /\ UNCHANGED others

(* One iteration of `for json_file in json_files` up to the emission of    *)
(* its Documents: the cap check, the parse, the message loop, and in       *)
(* concatenated mode the one Document of the file.                         *)
WcFile ==
    /\ reader = "wechat"
    /\ pc = "file"
    /\ IF i > Len(rows) \/ WeChatCapReached(max_count, count)
       THEN pc' = "done" /\ UNCHANGED <<i, docs, messages_text, j, count, tsOut, log>>
       ELSE LET read == ReadFile(rows[i], tsOut) IN
            /\ tsOut' = read.ts
            /\ IF read.raised
               THEN /\ log' = log \cup {"file error"}
                    /\ i' = i + 1
                    /\ pc' = "file"
                    /\ UNCHANGED <<docs, messages_text, j, count>>
               ELSE IF read.lines = <<>>
               THEN /\ i' = i + 1
                    /\ pc' = "file"
                    /\ UNCHANGED <<docs, messages_text, j, count, log>>
               ELSE IF concat
               THEN /\ docs' = Append(docs, ConcatenatedFileDoc(rows[i].stem, read.lines))
                    /\ count' = count + 1
                    /\ i' = i + 1
                    /\ pc' = "file"
                    /\ UNCHANGED <<messages_text, j, log>>
               ELSE /\ messages_text' = read.lines
                    /\ j' = 1
                    /\ pc' = "emit"
                    /\ UNCHANGED <<i, docs, count, log>>
    /\ UNCHANGED <<reader, max_count, concat, srcExists, table, scratch, conn,
                   rows, messages>>
    /\ UNCHANGED others

(* One iteration of `for msg in messages_text` (individual mode). *)
WcEmit ==
    /\ reader = "wechat"
    /\ pc = "emit"
    /\ IF j > Len(messages_text) \/ WeChatCapReached(max_count, count)
       THEN /\ i' = i + 1
            /\ pc' = "file"
            /\ UNCHANGED <<docs, j, count>>
       ELSE /\ docs' = Append(docs, LineDoc(rows[i].stem, messages_text[j]))
            /\ count' = count + 1
            /\ j' = j + 1
            /\ pc' = "emit"
            /\ UNCHANGED i
    /\ UNCHANGED <<reader, max_count, concat, srcExists, table, scratch, conn,
                   rows, messages, messages_text, tsOut, log>>
    /\ UNCHANGED others

---------------------------------------------------------------------------

InitCommon ==
    /\ max_count \in -1..MaxCap
    /\ srcExists \in BOOLEAN
    /\ pc = "start"
    /\ conn = "none"
    /\ rows = <<>>
    /\ i = 1
    /\ docs = <<>>
    /\ messages = <<>>
    /\ messages_text = <<>>
    /\ j = 1
    /\ count = 0
    /\ tsOut = <<"none", 0>>
    /\ log = {}

(* A scratch file left by an earlier, interrupted run may be present. *)
InitSnapshot ==
    /\ reader \in SnapshotReaders
    /\ concat = FALSE
    /\ table \in (IF srcExists THEN Tables(reader) ELSE {<<>>})
    /\ \E stale \in BOOLEAN :
          scratch = [p \in TempPaths |-> stale /\ p = temp_db_path(reader)]

InitIMessage ==
    /\ reader = "imessage"
    /\ max_count = -1
    /\ concat \in BOOLEAN
    /\ table \in (IF srcExists THEN SeqsUpTo(MessageRows, MaxRows) ELSE {<<>>})
    /\ scratch = [p \in TempPaths |-> FALSE]

InitWeChat ==
    /\ reader = "wechat"
    /\ concat \in BOOLEAN
    /\ table \in (IF srcExists THEN ExportDirs ELSE {<<>>})
    /\ scratch = [p \in TempPaths |-> FALSE]

(* Nothing is handed to the sanitizer alone. *)
IdleSanitizer == payload = StrPayload(<<>>) /\ san = <<>>

(* No concurrent calls are running. *)
NoFile == <<"absent", 0>>
IdleCalls == calls = <<>> /\ copies = [p \in TempPaths |-> NoFile]

Init == InitCommon /\ (InitSnapshot \/ InitIMessage \/ InitWeChat)
        /\ IdleSanitizer /\ IdleCalls

Next ==
    \/ SnapCheckExists
    \/ SnapCopy
    \/ SnapCopyFails
    \/ SnapConnect
    \/ SnapConnectFails
    \/ SnapQuery
    \/ SnapQueryFails
    \/ SnapRow
    \/ SnapClose
    \/ SnapRemove
    \/ SnapExcept
    \/ ImsgCheckExists
    \/ ImsgConnect
    \/ ImsgConnectFails
    \/ ImsgQuery
    \/ ImsgQueryFails
    \/ ImsgRow
    \/ ImsgClose
    \/ ImsgExcept
    \/ ImsgEmit
    \/ WcCheckExists
    \/ WcGlob
    \/ WcGlobFails
    \/ WcFile
    \/ WcEmit

Spec == Init /\ [][Next]_vars

---------------------------------------------------------------------------
(* The sanitizer alone: _is_text_message and _extract_readable_text        *)
(* applied to one payload.                                                 *)

MaxPieces == 3

(* No load_data call is running. *)
IdleLoad ==
    /\ reader = "wechat"
    /\ max_count = -1
    /\ concat = TRUE
    /\ srcExists = FALSE
    /\ table = <<>>
    /\ scratch = [p \in TempPaths |-> FALSE]
    /\ pc = "idle"
    /\ conn = "none"
    /\ rows = <<>>
    /\ i = 1
    /\ docs = <<>>
    /\ messages = <<>>
    /\ messages_text = <<>>
    /\ j = 1
    /\ count = 0
    /\ tsOut = <<"none", 0>>
    /\ log = {}

(* The pieces the payload strings tried are built of. *)
Pieces ==
    { <<"w", "x", "i", "d", "_", "a">>, <<":">>, <<" ">>, <<"<">>,
      <<"<", "i", "m", "g">>, <<"h", "i">>, RecalledPhrase }

RECURSIVE Flatten(_)
Flatten(ps) == IF ps = <<>> THEN <<>> ELSE Head(ps) \o Flatten(Tail(ps))

PayloadStrings == {Flatten(ps) : ps \in SeqsUpTo(Pieces, MaxPieces)}

(* Structured payloads: some of the four fields, each empty or not. *)
PayloadDicts ==
    UNION {[fs -> {<<>>, <<"t">>}] : fs \in SUBSET {"title", "quoted", "content", "text"}}

Payloads ==
    {StrPayload(str) : str \in PayloadStrings}
        \cup {DictPayload(d) : d \in PayloadDicts}
        \cup {[type |-> "none", str |-> <<>>, fields |-> [f \in {} |-> <<>>]],
              [type |-> "other", str |-> <<>>, fields |-> [f \in {} |-> <<>>]]}

InitSanitizer ==
    /\ IdleLoad
    /\ IdleCalls
    /\ payload \in Payloads
    /\ san = <<>>

(* Both functions are applied to the payload. *)
Sanitize ==
    /\ san = <<>>
    /\ san' = <<[is_text |-> IsTextMessage(payload),
                 readable |-> ExtractReadableText(payload)]>>
    /\ UNCHANGED <<loadVars, payload, calls, copies>>

NextSanitizer == Sanitize

SpecSanitizer == InitSanitizer /\ [][NextSanitizer]_vars

---------------------------------------------------------------------------
(* Two load_data calls of the snapshot readers running at the same time.   *)
(* calls[p] is the reader of call p, whether its source exists, its        *)
(* position, and what its connection was opened on; copies[path] is the    *)
(* file at a scratch path: absent, the copy made by a call, or the empty   *)
(* database sqlite3.connect creates when the path holds no file.           *)

Calls == 1..2

PathOf(p) == temp_db_path(calls[p].reader)

CallStep(p, to) == calls' = [calls EXCEPT ![p].pc = to]

Frame == UNCHANGED <<loadVars, payload, san>>

(* Both calls see the same sources; no scratch file is left from before.   *)
InitRace ==
    /\ IdleLoad
    /\ IdleSanitizer
    /\ \E present \in [SnapshotReaders -> BOOLEAN] :
       \E who \in [Calls -> SnapshotReaders] :
          calls = [p \in Calls |-> [reader |-> who[p], src |-> present[who[p]],
                                    pc |-> "start", db |-> "none"]]
    /\ copies = [f \in TempPaths |-> NoFile]

(* if not os.path.exists(source): return docs *)
RaceCheckExists(p) ==
    /\ calls[p].pc = "start"
    /\ CallStep(p, IF calls[p].src THEN "copy" ELSE "done")
    /\ UNCHANGED copies
    /\ Frame

(* shutil.copy2(source, temp_db_path): replaces whatever the path holds. *)
RaceCopy(p) ==
    /\ calls[p].pc = "copy"
    /\ copies' = [copies EXCEPT ![PathOf(p)] = <<"copy", p>>]
    /\ CallStep(p, "connect")
    /\ Frame

(* sqlite3.connect(temp_db_path): opens the file the path holds now, or    *)
(* creates an empty database when it holds none.                           *)
RaceConnect(p) ==
    /\ calls[p].pc = "connect"
    /\ IF copies[PathOf(p)] = NoFile
       THEN /\ copies' = [copies EXCEPT ![PathOf(p)] = <<"empty", p>>]
            /\ calls' = [calls EXCEPT ![p].pc = "query", ![p].db = "empty"]
       ELSE /\ calls' = [calls EXCEPT ![p].pc = "query",
                                      ![p].db = copies[PathOf(p)][1]]
            /\ UNCHANGED copies
    /\ Frame

(* cursor.execute; cursor.fetchall: the read of the scratch file ends      *)
(* here. It can succeed when the connection or the path holds a copy.      *)
RaceQuery(p) ==
    /\ calls[p].pc = "query"
    /\ calls[p].db = "copy" \/ copies[PathOf(p)][1] = "copy"
    /\ CallStep(p, "loop")
    /\ UNCHANGED copies
    /\ Frame

(* The query raises (no such table, malformed or locked database). *)
RaceQueryFails(p) ==
    /\ calls[p].pc = "query"
    /\ CallStep(p, "except")
    /\ UNCHANGED copies
    /\ Frame

(* The row loop and conn.close(); a history row whose title cannot be      *)
(* sliced raises instead.                                                  *)
RaceLoop(p) ==
    /\ calls[p].pc = "loop"
    /\ \/ CallStep(p, IF calls[p].reader = "chrome" THEN "remove" ELSE "unlink")
       \/ calls[p].reader = "chrome" /\ CallStep(p, "except")
    /\ UNCHANGED copies
    /\ Frame

(* if os.path.exists(temp_db_path): of the history reader's normal path. *)
RaceRemoveCheck(p) ==
    /\ calls[p].pc = "remove"
    /\ CallStep(p, IF copies[PathOf(p)] = NoFile THEN "done" ELSE "unlink")
    /\ UNCHANGED copies
    /\ Frame

(* os.remove(temp_db_path) of the normal path: raises when the path holds  *)
(* no file.                                                                *)
RaceUnlink(p) ==
    /\ calls[p].pc = "unlink"
    /\ IF copies[PathOf(p)] = NoFile
       THEN CallStep(p, "except") /\ UNCHANGED copies
       ELSE /\ copies' = [copies EXCEPT ![PathOf(p)] = NoFile]
            /\ CallStep(p, "done")
    /\ Frame

(* except Exception: if os.path.exists(temp_db_path): *)
RaceExceptCheck(p) ==
    /\ calls[p].pc = "except"
    /\ CallStep(p, IF copies[PathOf(p)] = NoFile THEN "done" ELSE "unlinkE")
    /\ UNCHANGED copies
    /\ Frame

(* os.remove(temp_db_path) of the handler: when the path holds no file     *)
(* any more, FileNotFoundError leaves load_data.                           *)
RaceExceptUnlink(p) ==
    /\ calls[p].pc = "unlinkE"
    /\ IF copies[PathOf(p)] = NoFile
       THEN CallStep(p, "raised") /\ UNCHANGED copies
       ELSE /\ copies' = [copies EXCEPT ![PathOf(p)] = NoFile]
            /\ CallStep(p, "done")
    /\ Frame

NextRace ==
    \/ \E p \in Calls : RaceCheckExists(p)
    \/ \E p \in Calls : RaceCopy(p)
    \/ \E p \in Calls : RaceConnect(p)
    \/ \E p \in Calls : RaceQuery(p)
    \/ \E p \in Calls : RaceQueryFails(p)
    \/ \E p \in Calls : RaceLoop(p)
    \/ \E p \in Calls : RaceRemoveCheck(p)
    \/ \E p \in Calls : RaceUnlink(p)
    \/ \E p \in Calls : RaceExceptCheck(p)
    \/ \E p \in Calls : RaceExceptUnlink(p)

SpecRace == InitRace /\ [][NextRace]_vars

---------------------------------------------------------------------------
(* Properties.                                                             *)

Returned == pc = "done"
Failed == "error" \in log

(* The rows of a scratch-copy reader's table that pass its filter. *)
Passing(r, t) == {k \in 1..Len(t) : ~Skips(r, t[k])}

(* The number of Documents an export directory yields without a cap. *)
RECURSIVE UncappedCount(_, _)
UncappedCount(files, concatenate) ==
    IF files = <<>> THEN 0
    ELSE LET read == ReadFile(Head(files), <<"none", 0>>)
             here == IF read.raised THEN 0
                     ELSE IF concatenate THEN (IF read.lines = <<>> THEN 0 ELSE 1)
                     ELSE Len(read.lines)
         IN  here + UncappedCount(Tail(files), concatenate)

(* C1: when load_data of a reader that takes a scratch copy (browser       *)
(* history, mail index, calendar cache) returns after having gone past the *)
(* source check - on success, after a failed copy, after an error while    *)
(* opening, querying or processing rows - its scratch file does not exist. *)
C1_NoScratchAtReturn ==
    (reader \in SnapshotReaders /\ Returned /\ srcExists)
        => ~scratch[temp_db_path(reader)]

(* A call that failed after the copy was made and the connection opened,   *)
(* and that started with a stale scratch file in place.                    *)
C1_Witness ==
    /\ reader \in SnapshotReaders
    /\ Returned
    /\ Failed
    /\ conn = temp_db_path(reader)
    /\ docs # <<>>
    /\ ~scratch[temp_db_path(reader)]

(* C2: whenever load_data returns after a whole-source failure (the error  *)
(* handler ran), the returned list is empty, also when Documents had been  *)
(* built before the failure.                                               *)
C2_EmptyOnFailure == (Returned /\ Failed) => docs = <<>>

(* C3: if the source does not exist, load_data returns an empty list,      *)
(* opens no connection, and no step of the call creates, changes or        *)
(* removes a file.                                                         *)
C3_MissingSourceNoEffect ==
    /\ []((Returned /\ ~srcExists) => (docs = <<>> /\ conn = "none"))
    /\ [][~srcExists =>
            (scratch' = scratch /\ table' = table /\ srcExists' = srcExists)]_vars

(* A call on a missing source that returned with the warning printed and   *)
(* left a scratch file of an earlier run in place.                         *)
C3_Witness ==
    /\ Returned
    /\ ~srcExists
    /\ "not found" \in log
    /\ \E p \in TempPaths : scratch[p]

(* C4: every database-backed reader has its connection open only on a      *)
(* scratch copy, never on the source file.                                 *)
C4_ConnectionOnScratchOnly == conn \in TempPaths \cup {"none"}

(* C5: with max_count <= 0 a capped reader that returns without failure    *)
(* has emitted every row, or every Document of the export directory, that  *)
(* passes its filter.                                                      *)
C5_NonPositiveCapUnlimited ==
    (reader \in CappedReaders /\ max_count <= 0 /\ Returned /\ srcExists /\ ~Failed)
        => Len(docs) = IF reader = "wechat" THEN UncappedCount(table, concat)
                       ELSE Cardinality(Passing(reader, table))

(* C6: browser history with max_count = N > 0.  At every point of the call *)
(* there are at most N Documents and each comes from a row with non-empty  *)
(* title and URL.  When the call returns without failure, the Documents    *)
(* are min(N, qualifying rows) many, in descending last-visit order, each  *)
(* from its own qualifying row of the table, and no qualifying row left    *)
(* out was visited later than an emitted one.                              *)
C6_ChromeCap ==
    (reader = "chrome" /\ max_count > 0) =>
        /\ Len(docs) <= max_count
        /\ \A k \in 1..Len(docs) : Truthy(docs[k].title) /\ Truthy(docs[k].url)
        /\ (Returned /\ srcExists /\ ~Failed) =>
              /\ Len(docs) = Min(max_count, Cardinality(Passing("chrome", table)))
              /\ \A a, b \in 1..Len(docs) :
                    a < b => docs[a].last_visit >= docs[b].last_visit
              /\ \E f \in [1..Len(docs) -> Passing("chrome", table)] :
                    /\ \A a, b \in 1..Len(docs) : a # b => f[a] # f[b]
                    /\ \A a \in 1..Len(docs) : ChromeDoc(table[f[a]]) = docs[a]
                    /\ \A k \in Passing("chrome", table) :
                          (\A a \in 1..Len(docs) : f[a] # k) =>
                              \A a \in 1..Len(docs) :
                                  table[k].last_visit_time <= docs[a].last_visit

(* A capped call that scanned more rows than the cap, skipped one for its  *)
(* empty title or URL, and still filled the cap.                           *)
C6_Witness ==
    /\ reader = "chrome"
    /\ Returned
    /\ ~Failed
    /\ max_count = 1
    /\ Len(docs) = 1
    /\ Len(rows) = 2
    /\ ChromeSkips(rows[1])

(* C7: chat export with max_count = N > 0, in both modes.  At every point  *)
(* of the scan at most N Documents have been emitted, and when the call    *)
(* returns (the directory having been listed) it has emitted min(N, D)     *)
(* Documents, D being what the directory yields without a cap: the number *)
(* a call with max_count <= 0 returns.                                     *)
C7_WeChatCap ==
    reader = "wechat" =>
        /\ count = Len(docs)
        /\ max_count > 0 => Len(docs) <= max_count
        /\ (Returned /\ srcExists /\ ~Failed) =>
              Len(docs) = IF max_count > 0
                          THEN Min(max_count, UncappedCount(table, concat))
                          ELSE UncappedCount(table, concat)

(* An individual-mode call stopped by the cap in the middle of a file. *)
C7_Witness ==
    /\ reader = "wechat"
    /\ Returned
    /\ ~concat
    /\ max_count = 1
    /\ Len(docs) = 1
    /\ j <= Len(messages_text)
    /\ UncappedCount(table, concat) > 1

(* C8: messaging database, concatenated mode, a non-empty message list.    *)
(* The call returns one Document per distinct chat_id, in the order in     *)
(* which the chats first appear; each Document holds exactly the messages  *)
(* of its chat, in input order and ascending date, message_count being     *)
(* their number; participants are exactly the contact labels of the chat's *)
(* messages that are not from the user.                                    *)
FirstSeen(c) == CHOOSE k \in 1..Len(messages) :
                    messages[k].chat_id = c /\ \A n \in 1..(k - 1) : messages[n].chat_id # c

C8_Grouping ==
    (reader = "imessage" /\ concat /\ Returned /\ messages # <<>>) =>
        LET ids == {messages[k].chat_id : k \in 1..Len(messages)} IN
        /\ Len(docs) = Cardinality(ids)
        /\ {docs[k].chat_id : k \in 1..Len(docs)} = ids
        /\ \A a, b \in 1..Len(docs) :
              a < b => FirstSeen(docs[a].chat_id) < FirstSeen(docs[b].chat_id)
        /\ \A k \in 1..Len(docs) :
              LET InChat(m) == m.chat_id = docs[k].chat_id
                  own == SelectSeq(messages, InChat)
              IN  /\ docs[k].parts = [n \in 1..Len(own) |-> ConcatenatedPart(own[n])]
                  /\ docs[k].message_count = Len(own)
                  /\ \A a, b \in 1..Len(own) :
                        a < b => table[own[a].message_id].date[2]
                                    <= table[own[b].message_id].date[2]
                  /\ docs[k].participants =
                        {own[n].contact_name : n \in {x \in 1..Len(own) : ~own[x].is_from_me}}

(* Messages of two chats, stored in the table in another order than the    *)
(* query returns them, one chat with a message of the user only.           *)
C8_Witness ==
    /\ reader = "imessage"
    /\ concat
    /\ Returned
    /\ Len(docs) = 2
    /\ table[1].chat_id > table[2].chat_id
    /\ docs[1].participants = {}
    /\ docs[2].participants # {}

(* The rows of the messaging query whose processing does not raise. *)
GoodRows == {k \in 1..Len(rows) : ~Raised(ConvertCocoaTimestamp(rows[k].date))}

(* The lines a file yields when every message that raises is skipped alone. *)
RECURSIVE GoodLines(_)
GoodLines(data) ==
    IF data = <<>> THEN 0
    ELSE LET one == MessageStep([raised |-> FALSE, lines |-> <<>>, ts |-> <<"none", 0>>],
                                Head(data))
         IN  Len(one.lines) + GoodLines(Tail(data))

RECURSIVE GoodLinesOfDir(_)
GoodLinesOfDir(files) ==
    IF files = <<>> THEN 0
    ELSE (IF Head(files).body.corrupt THEN 0 ELSE GoodLines(Head(files).body.data))
         + GoodLinesOfDir(Tail(files))

(* C9: a failure on one row or message skips that item only.  In           *)
(* individual mode without a cap, a messaging call whose query returned    *)
(* rows emits one Document per row that does not fail, and a chat-export   *)
(* call emits one Document per message that passes the filter and does not *)
(* fail, whatever else its file holds.                                     *)
C9_ItemFailureSkipsItemOnly ==
    /\ (reader = "imessage" /\ ~concat /\ Returned /\ rows # <<>>)
          => Len(docs) = Cardinality(GoodRows)
    /\ (reader = "wechat" /\ ~concat /\ max_count <= 0 /\ Returned /\ srcExists /\ ~Failed)
          => Len(docs) = GoodLinesOfDir(table)

(* C10: no timestamp conversion raises: each ends in a formatted time or   *)
(* in "Unknown", and a zero messaging-database timestamp gives "Unknown".  *)
C10_ConversionNeverRaises ==
    /\ tsOut[1] \in {"none", "time", "Unknown"}
    /\ ConvertCocoaTimestamp(<<"int", 0>>) = <<"Unknown", 0>>

(* Whether no metadata value of a Document's display fields is None. *)
NoNullMetadata(d) ==
    CASE reader = "chrome" -> d.title # Null /\ d.url # Null
      [] reader = "mail" -> d.subject # Null /\ d.sender # Null
      [] reader = "calendar" -> d.event # Null /\ d.start[1] # "null"
      [] reader = "imessage" /\ concat ->
            d.chat_name # Null /\ d.chat_identifier[1] = "chat"
      [] reader = "imessage" /\ ~concat ->
            /\ d.chat_name # Null
            /\ d.chat_identifier[1] = "chat"
            /\ d.service # Null
            /\ d.contact_name # <<>>
      [] reader = "wechat" -> d.contact_name[1] = "contact"

(* C11: in every Document of every reader no metadata value of a display   *)
(* field is None: a field missing in the source row is given as "Unknown"  *)
(* or a default string, or its key is left out.                            *)
C11_NoNullMetadata == \A k \in 1..Len(docs) : NoNullMetadata(docs[k])

(* C12: readable-text extraction mirrors classification for every payload: *)
(* the extracted text is non-empty exactly when the payload is classified  *)
(* as a text message, and it is then the cleaned string (prefixes          *)
(* stripped, trimmed) or the present fields joined with " | ".             *)
C12_ExtractionMirrorsClassification ==
    san # <<>> =>
        /\ san[1].is_text <=> san[1].readable # <<>>
        /\ (san[1].is_text /\ payload.type = "str")
              => san[1].readable = Strip(CleanContent(payload.str))

(* The files of a listing whose parse and message loop do not raise. *)
FileRaises(file) == ReadFile(file, <<"none", 0>>).raised
WithoutFailing(files) == SelectSeq(files, LAMBDA f : ~FileRaises(f))

(* C13: a chat-export file that fails to parse or process contributes no   *)
(* Document and every other file is still processed: the Documents         *)
(* returned are those of load on the directory without the failing files,  *)
(* under the same cap.                                                     *)
C13_FailingFileSkipped ==
    (reader = "wechat" /\ Returned /\ srcExists /\ ~Failed) =>
        docs = WeChatResult(WithoutFailing(table), max_count, concat)

(* One file of two failed, and the file listed after it gave Documents. *)
C13_Witness ==
    /\ reader = "wechat" /\ Returned /\ ~Failed
    /\ Len(table) = 2
    /\ FileRaises(table[1]) /\ ~FileRaises(table[2])
    /\ "file error" \in log
    /\ docs # <<>>

(* The orders in which glob may yield the files of one directory: the      *)
(* listing is not sorted (line 597).                                       *)
Enumerations(files) ==
    {[k \in 1..Len(files) |-> files[q[k]]] :
        q \in {f \in [1..Len(files) -> 1..Len(files)] :
                 \A a, b \in 1..Len(files) : a # b => f[a] # f[b]}}

(* C14: for a fixed directory, cap and mode the chat-export Documents are  *)
(* the same, in the same order, whatever the order in which the            *)
(* directory's files are enumerated.                                       *)
C14_EnumerationOrderIrrelevant ==
    (reader = "wechat" /\ Returned /\ srcExists /\ ~Failed) =>
        \A listing \in Enumerations(table) :
            WeChatResult(listing, max_count, concat) = docs

(* Call p has copied and has not finished reading, and its scratch path    *)
(* no longer holds its copy: the file was deleted or replaced.             *)
ScratchLost(p) ==
    /\ calls[p].pc \in {"connect", "query"}
    /\ copies[PathOf(p)] # <<"copy", p>>

(* Call p is over and a file exists at its scratch path. *)
ScratchLeftBehind(p) ==
    /\ calls[p].pc \in {"done", "raised"}
    /\ copies[PathOf(p)] # NoFile

SameType(p, q) == p # q /\ calls[p].reader = calls[q].reader

(* C15: concurrent calls of the same source type use the same scratch      *)
(* path and calls of different source types use different ones; a call     *)
(* whose scratch file is deleted or replaced before it finished reading,   *)
(* or at whose return a scratch file exists, runs beside another call of   *)
(* its own source type.                                                    *)
C15_RaceOnlyWithinSourceType ==
    \A p \in DOMAIN calls :
        /\ \A q \in DOMAIN calls :
              (calls[p].reader = calls[q].reader) <=> (PathOf(p) = PathOf(q))
        /\ (ScratchLost(p) \/ ScratchLeftBehind(p))
              => \E q \in DOMAIN calls : SameType(p, q)

(* Two calls of one source type: the scratch file of one was deleted by    *)
(* the other before it ran its query.                                      *)
C15_Witness ==
    \E p, q \in DOMAIN calls :
        /\ SameType(p, q)
        /\ ScratchLost(p)
        /\ calls[p].pc = "query" /\ calls[p].db = "copy"
        /\ copies[PathOf(p)] = NoFile
        /\ calls[q].pc = "done"

(* The other two bad states of two calls of one source type. *)
RaceOverwritten ==
    \E p, q \in DOMAIN calls :
        SameType(p, q) /\ ScratchLost(p) /\ copies[PathOf(p)] = <<"copy", q>>
RaceLeftBehind ==
    \E p, q \in DOMAIN calls :
        SameType(p, q) /\ ScratchLeftBehind(p) /\ copies[PathOf(p)] = <<"copy", q>>

(* load_data of a capped reader on a fixed source. *)
LoadResult(r, t, cap, concatenate) ==
    IF r = "wechat" THEN WeChatResult(t, cap, concatenate) ELSE SnapResult(r, t, cap)

IsPrefix(a, b) == Len(a) <= Len(b) /\ SubSeq(b, 1, Len(a)) = a

(* C16: for a fixed source and enumeration order, what a capped reader     *)
(* returns with max_count = N > 0 (unless copy, connect, query or listing  *)
(* failed and nothing is returned) is a prefix of what it returns with     *)
(* N + 1, which is a prefix of what it returns without a cap.              *)
C16_CapMonotone ==
    (reader \in CappedReaders /\ Returned /\ srcExists /\ max_count > 0) =>
        /\ docs = LoadResult(reader, table, max_count, concat)
              \/ (Failed /\ docs = <<>>)
        /\ IsPrefix(LoadResult(reader, table, max_count, concat),
                    LoadResult(reader, table, max_count + 1, concat))
        /\ IsPrefix(LoadResult(reader, table, max_count + 1, concat),
                    LoadResult(reader, table, -1, concat))

(* A capped run whose cap cut the result: one more is returned with N + 1. *)
C16_Witness ==
    /\ reader \in CappedReaders /\ Returned /\ max_count > 0
    /\ docs = LoadResult(reader, table, max_count, concat)
    /\ Len(docs) = max_count
    /\ Len(LoadResult(reader, table, max_count + 1, concat)) = max_count + 1

(* The same for each capped reader and mode. *)
CapCuts(r, c) == C16_Witness /\ reader = r /\ concat = c
CapCutsChrome == CapCuts("chrome", FALSE)
CapCutsMail == CapCuts("mail", FALSE)
CapCutsCalendar == CapCuts("calendar", FALSE)
CapCutsWeChatFiles == CapCuts("wechat", TRUE)
CapCutsWeChatLines == CapCuts("wechat", FALSE)

====
